---- MODULE Spec2Model ----
(***************************************************************************)
(* State layer of the margined engine (contracts/margined_engine/src/      *)
(* state.rs): the config singleton, the vamm registry, the position bucket *)
(* keyed by a digest of (vamm, trader), and the tentative position slot.   *)
(*                                                                         *)
(* A byte is an integer 0..255, a string is a sequence of bytes, and the   *)
(* key-value store is a function from keys (byte strings) to serialized    *)
(* documents.                                                              *)
(***************************************************************************)
EXTENDS Integers, Sequences, FiniteSets, TLC

VARIABLES storage,     \* the contract's key-value store (dyn Storage)
          last,        \* the operation executed last: [op, arg, res], and for a
                       \* write pre, what the matching read returned before it
          staged,      \* history: position staged last since the last clear
          stored,      \* history: (vamm, trader) -> position stored last for it
          registered,  \* history: list accepted by the last successful store_vamm
          configured,  \* history: store_config was executed
          tx           \* the operation the host is executing, if any

vars == <<storage, last, staged, stored, registered, configured, tx>>

(***************************************************************************)
(* Bounds of the model.                                                    *)
(***************************************************************************)
MaxAmount == 1      \* numeric fields of positions and configs range over 0..MaxAmount
MaxList == 2        \* longest list handed to store_vamm

(***************************************************************************)
(* Results and options.                                                    *)
(***************************************************************************)
Ok(v) == <<"Ok", v>>
Err(e) == <<"Err", e>>
IsOk(r) == r[1] = "Ok"
IsErr(r) == r[1] = "Err"
Some(v) == <<"Some", v>>
None == <<"None">>
Unit == <<>>
NotFound == "NotFound"
ParseErr == "ParseErr"

(***************************************************************************)
(* Storage keys.                                                           *)
(***************************************************************************)
KEY_CONFIG == <<99, 111, 110, 102, 105, 103>>
KEY_POSITION == <<112, 111, 115, 105, 116, 105, 111, 110>>
KEY_TMP_POSITION == <<116, 109, 112, 45, 112, 111, 115, 105, 116, 105, 111, 110>>
VAMM_LIST == <<97, 100, 109, 105, 110, 95, 108, 105, 115, 116>>

\* cosmwasm_storage namespaces: two bytes of big-endian length, then the name
to_length_prefixed(ns) == <<Len(ns) \div 256, Len(ns) % 256>> \o ns

\* Sha3_256 taken as a perfect hash: a fixed-size block that determines the
\* message (its length, the message, zero padding).
DigestLen == 32
Sha3_256(msg) == <<Len(msg)>> \o msg \o [i \in 1..(DigestLen - 1 - Len(msg)) |-> 0]

(***************************************************************************)
(* The Storage trait.                                                      *)
(***************************************************************************)
get(s, k) == IF k \in DOMAIN s THEN Some(s[k]) ELSE None
set(s, k, v) == [x \in (DOMAIN s) \cup {k} |-> IF x = k THEN v ELSE s[x]]
remove(s, k) == [x \in (DOMAIN s) \ {k} |-> s[x]]

(***************************************************************************)
(* Serialization (serde JSON).  A JSON object is a record of its members,  *)
(* a JSON string is its bytes, Uint128 and Timestamp are written as        *)
(* strings of decimal digits.                                              *)
(***************************************************************************)
RECURSIVE to_string(_)
to_string(n) == IF n < 10 THEN <<48 + n>> ELSE to_string(n \div 10) \o <<48 + (n % 10)>>

RECURSIVE parse(_)
parse(ds) == IF Len(ds) = 0 THEN 0
             ELSE 10 * parse(SubSeq(ds, 1, Len(ds) - 1)) + (ds[Len(ds)] - 48)

JsonNull == [null |-> TRUE]

ConfigFields == {"owner", "eligible_collateral", "decimals", "initial_margin_ratio",
                 "maintenance_margin_ratio", "liquidation_fee"}

Config_to_vec(c) ==
    [owner |-> c.owner,
     eligible_collateral |-> c.eligible_collateral,
     decimals |-> to_string(c.decimals),
     initial_margin_ratio |-> to_string(c.initial_margin_ratio),
     maintenance_margin_ratio |-> to_string(c.maintenance_margin_ratio),
     liquidation_fee |-> to_string(c.liquidation_fee)]

Config_from_slice(j) ==
    IF DOMAIN j # ConfigFields THEN Err(ParseErr)
    ELSE Ok([owner |-> j.owner,
             eligible_collateral |-> j.eligible_collateral,
             decimals |-> parse(j.decimals),
             initial_margin_ratio |-> parse(j.initial_margin_ratio),
             maintenance_margin_ratio |-> parse(j.maintenance_margin_ratio),
             liquidation_fee |-> parse(j.liquidation_fee)])

VammListFields == {"vamm"}
VammList_to_vec(l) == [vamm |-> l.vamm]
VammList_from_slice(j) ==
    IF DOMAIN j # VammListFields THEN Err(ParseErr) ELSE Ok([vamm |-> j.vamm])

PositionFields == {"vamm", "trader", "direction", "size", "margin", "notional",
                   "premium_fraction", "liquidity_history_index", "timestamp"}

Position_to_vec(p) ==
    [vamm |-> p.vamm,
     trader |-> p.trader,
     direction |-> p.direction,
     size |-> to_string(p.size),
     margin |-> to_string(p.margin),
     notional |-> to_string(p.notional),
     premium_fraction |-> to_string(p.premium_fraction),
     liquidity_history_index |-> to_string(p.liquidity_history_index),
     timestamp |-> to_string(p.timestamp)]

Position_from_slice(j) ==
    IF DOMAIN j # PositionFields THEN Err(ParseErr)
    ELSE Ok([vamm |-> j.vamm,
             trader |-> j.trader,
             direction |-> j.direction,
             size |-> parse(j.size),
             margin |-> parse(j.margin),
             notional |-> parse(j.notional),
             premium_fraction |-> parse(j.premium_fraction),
             liquidity_history_index |-> parse(j.liquidity_history_index),
             timestamp |-> parse(j.timestamp)])

\* serde's Option<T>: JSON null is None, anything else is Some(T)
OptionPosition_from_slice(j) ==
    IF j = JsonNull THEN Ok(None)
    ELSE LET r == Position_from_slice(j)
         IN  IF IsOk(r) THEN Ok(Some(r[2])) ELSE r

(***************************************************************************)
(* cosmwasm_storage Singleton / Bucket and cw_storage_plus Item: a missing *)
(* key is NotFound for load and Ok(None) for may_load.                     *)
(***************************************************************************)
\* load(): the bytes under the key, or NotFound; the caller deserializes them
load(s, k) == IF get(s, k) = None THEN Err(NotFound) ELSE Ok(get(s, k)[2])

\* may_load(): Ok(None) for a missing key, else the deserialized value in Some
may_load(v, parsed) ==
    IF v = None THEN Ok(None)
    ELSE IF IsOk(parsed) THEN Ok(Some(parsed[2])) ELSE parsed

(***************************************************************************)
(* Config store.                                                           *)
(***************************************************************************)
\* variant: only the owner of an existing config is updated, the other fields stay
store_config_merge(s, config) ==
    LET b == get(s, to_length_prefixed(KEY_CONFIG))
    IN  [res |-> Ok(Unit),
         storage |-> set(s, to_length_prefixed(KEY_CONFIG),
                         IF b = None THEN Config_to_vec(config)
                         ELSE [b[2] EXCEPT !.owner = config.owner])]

\* variant: the config is written once, a later write is dropped
store_config_once(s, config) ==
    [res |-> Ok(Unit),
     storage |-> IF to_length_prefixed(KEY_CONFIG) \in DOMAIN s THEN s
                 ELSE set(s, to_length_prefixed(KEY_CONFIG), Config_to_vec(config))]

store_config(s, config) ==
    [res |-> Ok(Unit),
     storage |-> set(s, to_length_prefixed(KEY_CONFIG), Config_to_vec(config))]

\* variant: a missing config reads as a zero config instead of an error
read_config_or_default(s) ==
    LET b == load(s, to_length_prefixed(KEY_CONFIG))
    IN  IF IsErr(b)
        THEN Ok([owner |-> <<>>, eligible_collateral |-> <<>>, decimals |-> 0,
                 initial_margin_ratio |-> 0, maintenance_margin_ratio |-> 0,
                 liquidation_fee |-> 0])
        ELSE Config_from_slice(b[2])

read_config(s) ==
    LET b == load(s, to_length_prefixed(KEY_CONFIG))
    IN  IF IsErr(b) THEN b ELSE Config_from_slice(b[2])

(***************************************************************************)
(* Vamm registry.                                                          *)
(***************************************************************************)
\* Api::addr_validate of the test dependencies: an address shorter than three
\* bytes is rejected, an accepted one is returned unchanged
addr_validate(addr) ==
    IF Len(addr) < 3 THEN Err([kind |-> "GenericErr", input |-> addr]) ELSE Ok(addr)

\* variant: every entry is validated and the error of the last invalid one is kept
RECURSIVE map_validate_last(_)
map_validate_last(input) ==
    IF Len(input) = 0 THEN Ok(<<>>)
    ELSE LET h == addr_validate(Head(input))
             t == map_validate_last(Tail(input))
         IN  IF IsErr(t) THEN t
             ELSE IF IsErr(h) THEN h ELSE Ok(<<h[2]>> \o t[2])

\* collect() into a Result: left to right, the first Err ends the iteration
RECURSIVE map_validate(_)
map_validate(input) ==
    IF Len(input) = 0 THEN Ok(<<>>)
    ELSE LET h == addr_validate(Head(input))
         IN  IF IsErr(h) THEN h
             ELSE LET t == map_validate(Tail(input))
                  IN  IF IsErr(t) THEN t ELSE Ok(<<h[2]>> \o t[2])

\* the entries before the first invalid one
RECURSIVE valid_prefix(_)
valid_prefix(input) ==
    IF Len(input) = 0 \/ IsErr(addr_validate(Head(input))) THEN <<>>
    ELSE <<Head(input)>> \o valid_prefix(Tail(input))

\* variant: the entries validated so far are saved before the error is returned
store_vamm_partial(s, input) ==
    LET v == map_validate(input)
    IN  IF IsErr(v)
        THEN [res |-> v,
              storage |-> set(s, VAMM_LIST, VammList_to_vec([vamm |-> valid_prefix(input)]))]
        ELSE [res |-> Ok(Unit),
              storage |-> set(s, VAMM_LIST, VammList_to_vec([vamm |-> v[2]]))]

\* variant: the validated entries are appended to the stored list
store_vamm_merge(s, input) ==
    LET v == map_validate(input)
        old == get(s, VAMM_LIST)
    IN  IF IsErr(v) THEN [res |-> v, storage |-> s]
        ELSE [res |-> Ok(Unit),
              storage |-> set(s, VAMM_LIST,
                              VammList_to_vec([vamm |-> IF old = None THEN v[2]
                                                        ELSE old[2].vamm \o v[2]]))]

\* variant: the list is saved under the key of the config singleton
store_vamm_config_key(s, input) ==
    LET v == map_validate(input)
    IN  IF IsErr(v) THEN [res |-> v, storage |-> s]
        ELSE [res |-> Ok(Unit),
              storage |-> set(s, to_length_prefixed(KEY_CONFIG),
                              VammList_to_vec([vamm |-> v[2]]))]

store_vamm(s, input) ==
    LET v == map_validate(input)
    IN  IF IsErr(v) THEN [res |-> v, storage |-> s]
        ELSE [res |-> Ok(Unit),
              storage |-> set(s, VAMM_LIST, VammList_to_vec([vamm |-> v[2]]))]

read_vamm(s) ==
    LET b == load(s, VAMM_LIST)
    IN  IF IsErr(b) THEN b ELSE VammList_from_slice(b[2])

to_ascii_lowercase(a) ==
    [i \in 1..Len(a) |-> IF a[i] >= 65 /\ a[i] <= 90 THEN a[i] + 32 ELSE a[i]]

\* variant: the comparison ignores ASCII case
is_vamm_ignore_case(self, addr) ==
    \E i \in 1..Len(self.vamm) :
        to_ascii_lowercase(self.vamm[i]) = to_ascii_lowercase(addr)

is_vamm(self, addr) == \E i \in 1..Len(self.vamm) : self.vamm[i] = addr

(***************************************************************************)
(* Position store.                                                         *)
(***************************************************************************)
Position_default ==
    [vamm |-> <<>>, trader |-> <<>>, direction |-> "AddToAmm", size |-> 0,
     margin |-> 0, notional |-> 0, premium_fraction |-> 0,
     liquidity_history_index |-> 0, timestamp |-> 0]

\* variant: the hasher is finalized without the addresses written to it
position_hash_empty(vamm, trader) == Sha3_256(<<>>)

\* hasher.update(vamm); hasher.update(trader); hasher.finalize()
position_hash(vamm, trader) == Sha3_256(vamm \o trader)

position_bucket_key(hash) == to_length_prefixed(KEY_POSITION) \o hash

\* variant: an existing record of the key is kept, only a new key is written
store_position_keep(s, position) ==
    LET k == position_bucket_key(position_hash(position.vamm, position.trader))
    IN  [res |-> Ok(Unit),
         storage |-> IF k \in DOMAIN s THEN s ELSE set(s, k, Position_to_vec(position))]

\* variant: storing a position also empties the tentative slot
store_position_clears_tmp(s, position) ==
    [res |-> Ok(Unit),
     storage |-> remove(set(s, position_bucket_key(position_hash(position.vamm,
                                                                 position.trader)),
                            Position_to_vec(position)),
                        to_length_prefixed(KEY_TMP_POSITION))]

store_position(s, position) ==
    [res |-> Ok(Unit),
     storage |-> set(s, position_bucket_key(position_hash(position.vamm, position.trader)),
                     Position_to_vec(position))]

read_position(s, vamm, trader) ==
    LET v == get(s, position_bucket_key(position_hash(vamm, trader)))
    IN  may_load(v, IF v = None THEN None ELSE Position_from_slice(v[2]))

(***************************************************************************)
(* Tentative position slot.                                                *)
(***************************************************************************)
\* variant: a staged position is kept, only an empty slot is written
store_tmp_position_keep(s, position) ==
    [res |-> Ok(Unit),
     storage |-> IF to_length_prefixed(KEY_TMP_POSITION) \in DOMAIN s THEN s
                 ELSE set(s, to_length_prefixed(KEY_TMP_POSITION),
                          Position_to_vec(position))]

\* variant: staging also writes the position under its (vamm, trader) key
store_tmp_position_commits(s, position) ==
    [res |-> Ok(Unit),
     storage |-> set(store_position(s, position).storage,
                     to_length_prefixed(KEY_TMP_POSITION), Position_to_vec(position))]

store_tmp_position(s, position) ==
    [res |-> Ok(Unit),
     storage |-> set(s, to_length_prefixed(KEY_TMP_POSITION), Position_to_vec(position))]

\* variant: the singleton removed is the one of the config key
remove_tmp_position_config(s) == remove(s, to_length_prefixed(KEY_CONFIG))

remove_tmp_position(s) == remove(s, to_length_prefixed(KEY_TMP_POSITION))

\* singleton_read::<Option<Position>>(..).load()
read_tmp_position(s) ==
    LET b == load(s, to_length_prefixed(KEY_TMP_POSITION))
    IN  IF IsErr(b) THEN b ELSE OptionPosition_from_slice(b[2])

(***************************************************************************)
(* The UpdateConfig operation of the dispatcher: only the stored owner may *)
(* change the owner, and the new owner passes the address validator.       *)
(***************************************************************************)
update_config(s, sender, owner) ==
    LET c == read_config(s)
    IN  IF IsErr(c) THEN [res |-> c, storage |-> s]
        ELSE IF sender # c[2].owner THEN [res |-> Err("Unauthorized"), storage |-> s]
        ELSE LET o == addr_validate(owner)
             IN  IF IsErr(o) THEN [res |-> o, storage |-> s]
                 ELSE store_config(s, [c[2] EXCEPT !.owner = o[2]])

(***************************************************************************)
(* Inputs of the operations.                                               *)
(***************************************************************************)
OWNER == <<111, 119, 110, 101, 114>>                  \* "owner"
ADDR0001 == <<97, 100, 100, 114, 48, 48, 48, 49>>     \* "addr0001"
TOKEN == <<116, 111, 107, 101, 110>>                  \* "token"

Owners == {OWNER, ADDR0001}
OwnerStrings == Owners \cup {<<97, 98>>}              \* "ab" fails validation

Config(o, k) ==
    [owner |-> o, eligible_collateral |-> TOKEN, decimals |-> 10,
     initial_margin_ratio |-> 100 + k, maintenance_margin_ratio |-> 100 - k,
     liquidation_fee |-> 100 * k]
Configs == {Config(o, k) : o \in Owners, k \in 0..MaxAmount}

\* "abc", "Abc" pass validation, "ab" and "" do not
VammStrings == {<<97, 98, 99>>, <<65, 98, 99>>, <<97, 98>>, <<>>}
VammInputs == UNION {[1..n -> VammStrings] : n \in 0..MaxList}

\* "a" and "aa": ("a", "aa") and ("aa", "a") concatenate to the same bytes
Addrs == {<<97>>, <<97, 97>>}
Position(v, t, k) ==
    [vamm |-> v, trader |-> t,
     direction |-> IF k = 0 THEN "AddToAmm" ELSE "RemoveFromAmm",
     size |-> k, margin |-> 2 * k, notional |-> 10 * k, premium_fraction |-> 3 * k,
     liquidity_history_index |-> k, timestamp |-> 1000 * k]
AddrPairs == {pair \in Addrs \X Addrs : Len(pair[1]) + Len(pair[2]) <= 3}
Positions == {Position(pair[1], pair[2], k) : pair \in AddrPairs, k \in 0..MaxAmount}
                \cup {Position_default}
Pairs == {<<p.vamm, p.trader>> : p \in Positions}
\* positions handed to the tentative slot
TmpPositions == {p \in Positions : Len(p.vamm) <= 1}

\* no operation in progress; for one in progress: own is the position it staged
\* last, cleared whether it cleared the slot since, snapshot the state it began in
NoTx == [active |-> FALSE, own |-> None, cleared |-> FALSE, snapshot |-> <<>>]

(***************************************************************************)
(* Initial state: an empty store, nothing executed.                        *)
(***************************************************************************)
Init ==
    /\ storage = <<>>
    /\ last = [op |-> "init", arg |-> Unit, res |-> Ok(Unit), pre |-> Unit]
    /\ staged = None
    /\ stored = <<>>
    /\ registered = None
    /\ configured = FALSE
    /\ tx = NoTx

(***************************************************************************)
(* Operations.                                                             *)
(***************************************************************************)
StoreConfig(c) ==
    LET r == store_config(storage, c)
    IN  /\ storage' = r.storage
        /\ last' = [op |-> "store_config", arg |-> c, res |-> r.res,
                    pre |-> read_config(storage)]
        /\ configured' = TRUE
        /\ UNCHANGED <<staged, stored, registered, tx>>

ReadConfig ==
    /\ last' = [op |-> "read_config", arg |-> Unit, res |-> read_config(storage),
                pre |-> Unit]
    /\ UNCHANGED <<storage, staged, stored, registered, configured, tx>>

UpdateConfig(sender, owner) ==
    LET r == update_config(storage, sender, owner)
    IN  /\ storage' = r.storage
        /\ last' = [op |-> "update_config",
                    arg |-> [sender |-> sender, owner |-> owner], res |-> r.res,
                    pre |-> read_config(storage)]
        /\ configured' = (configured \/ IsOk(r.res))
        /\ UNCHANGED <<staged, stored, registered, tx>>

StoreVamm(input) ==
    LET r == store_vamm(storage, input)
    IN  /\ storage' = r.storage
        /\ last' = [op |-> "store_vamm", arg |-> input, res |-> r.res,
                    pre |-> read_vamm(storage)]
        /\ registered' = IF IsOk(r.res) THEN Some(input) ELSE registered
        /\ UNCHANGED <<staged, stored, configured, tx>>

ReadVamm ==
    /\ last' = [op |-> "read_vamm", arg |-> Unit, res |-> read_vamm(storage),
                pre |-> Unit]
    /\ UNCHANGED <<storage, staged, stored, registered, configured, tx>>

\* is_vamm is a method of the loaded VammList
IsVamm(addr) ==
    /\ IsOk(read_vamm(storage))
    /\ last' = [op |-> "is_vamm", arg |-> addr,
                res |-> is_vamm(read_vamm(storage)[2], addr), pre |-> Unit]
    /\ UNCHANGED <<storage, staged, stored, registered, configured, tx>>

StorePosition(p) ==
    LET r == store_position(storage, p)
    IN  /\ storage' = r.storage
        /\ last' = [op |-> "store_position", arg |-> p, res |-> r.res,
                    pre |-> read_position(storage, p.vamm, p.trader)]
        /\ stored' = [x \in (DOMAIN stored) \cup {<<p.vamm, p.trader>>} |->
                        IF x = <<p.vamm, p.trader>> THEN p ELSE stored[x]]
        /\ UNCHANGED <<staged, registered, configured, tx>>

ReadPosition(v, t) ==
    /\ last' = [op |-> "read_position", arg |-> <<v, t>>,
                res |-> read_position(storage, v, t), pre |-> Unit]
    /\ UNCHANGED <<storage, staged, stored, registered, configured, tx>>

StoreTmpPosition(p) ==
    LET r == store_tmp_position(storage, p)
    IN  /\ storage' = r.storage
        /\ last' = [op |-> "store_tmp_position", arg |-> p, res |-> r.res,
                    pre |-> read_tmp_position(storage)]
        /\ staged' = Some(p)
        /\ tx' = IF tx.active THEN [tx EXCEPT !.own = Some(p), !.cleared = FALSE] ELSE tx
        /\ UNCHANGED <<stored, registered, configured>>

RemoveTmpPosition ==
    /\ storage' = remove_tmp_position(storage)
    /\ last' = [op |-> "remove_tmp_position", arg |-> Unit, res |-> Unit,
                pre |-> read_tmp_position(storage)]
    /\ staged' = None
    /\ tx' = IF tx.active THEN [tx EXCEPT !.cleared = TRUE] ELSE tx
    /\ UNCHANGED <<stored, registered, configured>>

ReadTmpPosition ==
    /\ last' = [op |-> "read_tmp_position", arg |-> Unit,
                res |-> read_tmp_position(storage), pre |-> Unit]
    /\ UNCHANGED <<storage, staged, stored, registered, configured, tx>>

(***************************************************************************)
(* Specifications: the config store and the registry with the dispatcher's *)
(* UpdateConfig, and the position store with the tentative slot.           *)
(***************************************************************************)
NextAdmin ==
    \/ \E c \in Configs : StoreConfig(c)
    \/ ReadConfig
    \/ \E sender \in Owners, owner \in OwnerStrings : UpdateConfig(sender, owner)
    \/ \E input \in VammInputs : StoreVamm(input)
    \/ ReadVamm
    \/ \E addr \in VammStrings : IsVamm(addr)

SpecAdmin == Init /\ [][NextAdmin]_vars

NextPosition ==
    \/ \E p \in Positions : StorePosition(p)
    \/ \E pair \in Pairs : ReadPosition(pair[1], pair[2])
    \/ \E p \in TmpPositions : StoreTmpPosition(p)
    \/ RemoveTmpPosition
    \/ ReadTmpPosition

SpecPosition == Init /\ [][NextPosition]_vars

(***************************************************************************)
(* All operations of the store on one state, with few inputs each: two     *)
(* configs, lists of at most one address, the two pairs that share a key   *)
(* and the default position.                                               *)
(***************************************************************************)
SomeConfigs == {Config(OWNER, 0), Config(ADDR0001, MaxAmount)}
SomeVammInputs == {input \in VammInputs : Len(input) <= 1}
SomePositions == {Position(<<97>>, <<97, 97>>, MaxAmount),
                  Position(<<97, 97>>, <<97>>, 0),
                  Position_default}
SomeTmpPositions == {Position(<<97>>, <<97, 97>>, 0), Position_default}

Next ==
    \/ \E c \in SomeConfigs : StoreConfig(c)
    \/ ReadConfig
    \/ \E sender \in Owners, owner \in OwnerStrings : UpdateConfig(sender, owner)
    \/ \E input \in SomeVammInputs : StoreVamm(input)
    \/ ReadVamm
    \/ \E addr \in VammStrings : IsVamm(addr)
    \/ \E p \in SomePositions : StorePosition(p)
    \/ \E p \in SomePositions : ReadPosition(p.vamm, p.trader)
    \/ \E p \in SomeTmpPositions : StoreTmpPosition(p)
    \/ RemoveTmpPosition
    \/ ReadTmpPosition

Spec == Init /\ [][Next]_vars

(***************************************************************************)
(* The host's execution of multi-step operations on the tentative slot:    *)
(* one operation at a time, which ends by committing its writes or, when   *)
(* it fails, by having all of them rolled back.                            *)
(***************************************************************************)
Begin ==
    /\ ~tx.active
    /\ tx' = [active |-> TRUE, own |-> None, cleared |-> FALSE,
              snapshot |-> <<storage, staged, stored>>]
    /\ last' = [op |-> "begin", arg |-> Unit, res |-> Unit, pre |-> Unit]
    /\ UNCHANGED <<storage, staged, stored, registered, configured>>

Commit ==
    /\ tx.active
    /\ tx' = NoTx
    /\ last' = [op |-> "commit", arg |-> Unit, res |-> Unit, pre |-> Unit]
    /\ UNCHANGED <<storage, staged, stored, registered, configured>>

Abort ==
    /\ tx.active
    /\ storage' = tx.snapshot[1]
    /\ staged' = tx.snapshot[2]
    /\ stored' = tx.snapshot[3]
    /\ tx' = NoTx
    /\ last' = [op |-> "abort", arg |-> Unit, res |-> Unit, pre |-> Unit]
    /\ UNCHANGED <<registered, configured>>

\* the steps of the operation in progress
TxStoreTmpPosition(p) == tx.active /\ StoreTmpPosition(p)
TxReadTmpPosition == tx.active /\ ReadTmpPosition
TxRemoveTmpPosition == tx.active /\ RemoveTmpPosition
TxStorePosition(p) == tx.active /\ StorePosition(p)

NextTx ==
    \/ Begin
    \/ Commit
    \/ Abort
    \/ \E p \in SomeTmpPositions : TxStoreTmpPosition(p)
    \/ TxReadTmpPosition
    \/ TxRemoveTmpPosition
    \/ \E p \in SomeTmpPositions : TxStorePosition(p)

SpecTx == Init /\ [][NextTx]_vars

(***************************************************************************)
(* Properties.                                                             *)
(***************************************************************************)

\* C1: read_tmp_position on an empty tentative slot (never staged, or emptied
\* by remove_tmp_position) returns Ok(None) and not an error.
C1_PeekEmptyIsNone ==
    (last.op = "read_tmp_position" /\ staged = None) => last.res = Ok(None)

\* C2: store_position of a position embedding (v1, t1) leaves the result of
\* read_position(v2, t2) unchanged for every pair (v2, t2) # (v1, t1).
C2_DistinctPairsDistinctKeys ==
    [][last'.op = "store_position" =>
         \A pair \in Pairs :
            pair # <<last'.arg.vamm, last'.arg.trader>> =>
               read_position(storage', pair[1], pair[2])
                  = read_position(storage, pair[1], pair[2])]_vars

\* C3: store_position(p) followed by read_position(p.vamm, p.trader) returns
\* Some(p), every field equal, whether or not a record existed for the pair.
C3_StoreThenRead ==
    last.op = "store_position" =>
       read_position(storage, last.arg.vamm, last.arg.trader) = Ok(Some(last.arg))

\* a record of the pair with other contents was replaced by the store
C3_Witness ==
    /\ last.op = "store_position"
    /\ last.pre # Ok(None)
    /\ IsOk(last.pre)
    /\ last.pre[2][2].vamm = last.arg.vamm
    /\ last.pre[2][2].trader = last.arg.trader
    /\ last.pre[2][2].notional # last.arg.notional
    /\ read_position(storage, last.arg.vamm, last.arg.trader) = Ok(Some(last.arg))

\* C10: read_position of a pair under which no position was ever stored
\* returns Ok(None), also when positions exist for other pairs.
C10_NeverStoredIsNone ==
    (last.op = "read_position" /\ last.arg \notin DOMAIN stored) => last.res = Ok(None)

\* some entry of the list fails validation
HasInvalid(input) == \E i \in 1..Len(input) : IsErr(addr_validate(input[i]))

\* C4: store_vamm with a list in which an address fails validation returns an
\* error and leaves the store, and so the result of read_vamm, as it was; no
\* prefix of valid entries is written.
C4_InvalidListNoChange ==
    [][(last'.op = "store_vamm" /\ HasInvalid(last'.arg)) =>
          /\ IsErr(last'.res)
          /\ storage' = storage
          /\ read_vamm(storage') = read_vamm(storage)]_vars

\* a list with a valid first and an invalid second entry was rejected while a
\* different registry was stored, and the registry is still that one
C4_Witness ==
    /\ last.op = "store_vamm"
    /\ Len(last.arg) = 2
    /\ IsOk(addr_validate(last.arg[1]))
    /\ IsErr(addr_validate(last.arg[2]))
    /\ IsErr(last.res)
    /\ IsOk(last.pre)
    /\ last.pre[2].vamm # <<last.arg[1]>>
    /\ read_vamm(storage) = last.pre

\* C5 as stated: UpdateConfig by the stored owner succeeds and read_config
\* returns the new owner; by any other sender it fails and leaves the store
\* unchanged.
C5_OwnerUpdateSucceeds ==
    [][last'.op = "update_config" =>
          IF /\ IsOk(read_config(storage))
             /\ read_config(storage)[2].owner = last'.arg.sender
          THEN /\ IsOk(last'.res)
               /\ IsOk(read_config(storage'))
               /\ read_config(storage')[2].owner = last'.arg.owner
          ELSE /\ IsErr(last'.res)
               /\ storage' = storage]_vars

\* C5 amended: UpdateConfig by the stored owner with a new owner that passes
\* address validation succeeds and read_config returns the new owner; by any
\* other sender, or with a new owner that fails validation, it fails and
\* leaves the store unchanged.
C5_ValidOwnerUpdateSucceeds ==
    [][last'.op = "update_config" =>
          IF /\ IsOk(read_config(storage))
             /\ read_config(storage)[2].owner = last'.arg.sender
             /\ IsOk(addr_validate(last'.arg.owner))
          THEN /\ IsOk(last'.res)
               /\ IsOk(read_config(storage'))
               /\ read_config(storage')[2].owner = last'.arg.owner
          ELSE /\ IsErr(last'.res)
               /\ storage' = storage]_vars

\* the stored owner handed the config over to another address
C5_Witness ==
    /\ last.op = "update_config"
    /\ IsOk(last.res)
    /\ IsOk(last.pre)
    /\ last.pre[2].owner = last.arg.sender
    /\ last.arg.owner # last.arg.sender
    /\ IsOk(read_config(storage))
    /\ read_config(storage)[2].owner = last.arg.owner

\* C6: while a position is staged (a stage followed the last clear),
\* read_tmp_position returns Some of the position staged last, whatever was
\* staged before it, and a peek returns that same value.
C6_PeekReturnsLastStaged ==
    staged # None =>
       /\ read_tmp_position(storage) = Ok(staged)
       /\ last.op = "read_tmp_position" => last.res = Ok(staged)

\* a position was staged over a different staged position and is the one read
C6_Witness ==
    /\ last.op = "store_tmp_position"
    /\ IsOk(last.pre)
    /\ last.pre # Ok(Some(last.arg))
    /\ read_tmp_position(storage) = Ok(Some(last.arg))

\* C7: store_vamm of a list of valid addresses followed by read_vamm returns
\* exactly that list, order and duplicates kept, whatever was stored before.
C7_StoreVammThenRead ==
    (last.op = "store_vamm" /\ ~HasInvalid(last.arg)) =>
       /\ IsOk(last.res)
       /\ read_vamm(storage) = Ok([vamm |-> last.arg])

\* a list with a duplicate entry replaced a different non-empty registry
C7_Witness ==
    /\ last.op = "store_vamm"
    /\ IsOk(last.res)
    /\ Len(last.arg) = 2
    /\ last.arg[1] = last.arg[2]
    /\ IsOk(last.pre)
    /\ Len(last.pre[2].vamm) > 0
    /\ last.pre[2].vamm[1] # last.arg[1]
    /\ read_vamm(storage) = Ok([vamm |-> last.arg])

\* C8: is_vamm(a) is true iff a equals, byte for byte, an address of the list
\* written by the last successful store_vamm.
C8_IsVammExactMatch ==
    (last.op = "is_vamm" /\ registered # None) =>
       (last.res <=> \E i \in 1..Len(registered[2]) : registered[2][i] = last.arg)

\* a candidate that differs from a registered address only in case is refused
C8_Witness ==
    /\ last.op = "is_vamm"
    /\ registered # None
    /\ last.res = FALSE
    /\ \E i \in 1..Len(registered[2]) :
          /\ registered[2][i] # last.arg
          /\ to_ascii_lowercase(registered[2][i]) = to_ascii_lowercase(last.arg)

\* C9: store_config(c) followed by read_config returns exactly c, whatever
\* config was stored before.
C9_StoreConfigThenRead ==
    last.op = "store_config" => read_config(storage) = Ok(last.arg)

\* a config differing in owner and in the numeric fields was replaced
C9_Witness ==
    /\ last.op = "store_config"
    /\ IsOk(last.pre)
    /\ last.pre[2].owner # last.arg.owner
    /\ last.pre[2].liquidation_fee # last.arg.liquidation_fee
    /\ read_config(storage) = Ok(last.arg)

\* C11: read_config before any store_config, and read_vamm before any
\* successful store_vamm, return a not-found error and never a default value.
C11_ReadBeforeWriteIsNotFound ==
    /\ (last.op = "read_config" /\ ~configured) => last.res = Err(NotFound)
    /\ (last.op = "read_vamm" /\ registered = None) => last.res = Err(NotFound)

\* the config is read while a registry is stored and no config ever was
C11_Witness ==
    /\ last.op = "read_config"
    /\ ~configured
    /\ registered # None
    /\ last.res = Err(NotFound)

\* C12: remove_tmp_position completes without error, leaves the slot empty,
\* changes nothing when the slot was empty, changes no other key, and a
\* second application changes nothing more.
C12_ClearIdempotent ==
    [][last'.op = "remove_tmp_position" =>
          /\ last'.res = Unit
          /\ to_length_prefixed(KEY_TMP_POSITION) \notin DOMAIN storage'
          /\ IsErr(read_tmp_position(storage'))
          /\ (to_length_prefixed(KEY_TMP_POSITION) \notin DOMAIN storage
                => storage' = storage)
          /\ \A k \in DOMAIN storage :
                k # to_length_prefixed(KEY_TMP_POSITION) => get(storage', k) = get(storage, k)
          /\ remove_tmp_position(storage') = storage']_vars

\* the slot was cleared while empty, with positions in the store
C12_Witness ==
    /\ last.op = "remove_tmp_position"
    /\ last.pre = Err(NotFound)
    /\ staged = None
    /\ DOMAIN stored # {}
    /\ \A pair \in DOMAIN stored :
          read_position(storage, pair[1], pair[2]) # Ok(None)

\* index of the first entry of the list that fails validation
FirstInvalid(input) ==
    CHOOSE i \in 1..Len(input) :
       /\ IsErr(addr_validate(input[i]))
       /\ \A j \in 1..(i - 1) : IsOk(addr_validate(input[j]))

\* C17: when the list given to store_vamm has invalid addresses, the error
\* returned is the validator's error for the invalid entry of smallest index.
C17_FirstInvalidReported ==
    (last.op = "store_vamm" /\ HasInvalid(last.arg)) =>
       last.res = addr_validate(last.arg[FirstInvalid(last.arg)])

\* a list of two different invalid entries was rejected with the first one's error
C17_Witness ==
    /\ last.op = "store_vamm"
    /\ Len(last.arg) = 2
    /\ IsErr(addr_validate(last.arg[1]))
    /\ IsErr(addr_validate(last.arg[2]))
    /\ addr_validate(last.arg[1]) # addr_validate(last.arg[2])
    /\ last.res = addr_validate(last.arg[1])

\* pairs of addresses, the empty address included
AllPairs == (Addrs \cup {<<>>}) \X (Addrs \cup {<<>>})

\* C19: store_position of Position::default() writes the entry of the empty
\* pair only: read_position(v, t) is unchanged for every pair in which v or t
\* is non-empty.
C19_DefaultTouchesEmptyPairOnly ==
    [][(last'.op = "store_position" /\ last'.arg = Position_default) =>
          \A pair \in AllPairs :
             (pair[1] # <<>> \/ pair[2] # <<>>) =>
                read_position(storage', pair[1], pair[2])
                   = read_position(storage, pair[1], pair[2])]_vars

\* the default position was stored and a non-zero position of another pair is
\* still read back
C19_Witness ==
    /\ last.op = "store_position"
    /\ last.arg = Position_default
    /\ read_position(storage, <<>>, <<>>) = Ok(Some(Position_default))
    /\ \E pair \in AllPairs :
          /\ pair[1] # <<>>
          /\ IsOk(read_position(storage, pair[1], pair[2]))
          /\ read_position(storage, pair[1], pair[2]) # Ok(None)
          /\ read_position(storage, pair[1], pair[2])[2][2].size > 0

\* C13: once store_config was executed read_config is never not-found, once
\* store_vamm succeeded read_vamm is never not-found, once a position was
\* stored for a pair read_position of the pair is never none; the only key
\* that an operation removes is the one of the tentative slot.
C13_NothingDeleted ==
    /\ [](/\ configured => IsOk(read_config(storage))
          /\ registered # None => IsOk(read_vamm(storage))
          /\ \A pair \in DOMAIN stored :
                /\ IsOk(read_position(storage, pair[1], pair[2]))
                /\ read_position(storage, pair[1], pair[2]) # Ok(None))
    /\ [][\A k \in DOMAIN storage :
             k \notin DOMAIN storage' => k = to_length_prefixed(KEY_TMP_POSITION)]_vars

\* the tentative slot went from staged to empty while a config, a registry
\* and a position stay readable
C13_Witness ==
    /\ last.op = "remove_tmp_position"
    /\ IsOk(last.pre)
    /\ IsErr(read_tmp_position(storage))
    /\ configured
    /\ IsOk(read_config(storage))
    /\ registered # None
    /\ IsOk(read_vamm(storage))
    /\ DOMAIN stored # {}

\* C14: store_tmp_position and remove_tmp_position leave read_position of
\* every pair, the pair of the staged position included, read_config and
\* read_vamm unchanged.
C14_StagingDoesNotCommit ==
    [][last'.op \in {"store_tmp_position", "remove_tmp_position"} =>
          /\ \A pair \in AllPairs :
                read_position(storage', pair[1], pair[2])
                   = read_position(storage, pair[1], pair[2])
          /\ read_config(storage') = read_config(storage)
          /\ read_vamm(storage') = read_vamm(storage)]_vars

\* a position was staged while the store holds another position for its pair
C14_Witness ==
    /\ last.op = "store_tmp_position"
    /\ IsOk(read_position(storage, last.arg.vamm, last.arg.trader))
    /\ read_position(storage, last.arg.vamm, last.arg.trader)
          \notin {Ok(None), Ok(Some(last.arg))}
    /\ <<last.arg.vamm, last.arg.trader>> \in DOMAIN stored
    /\ configured
    /\ registered # None

\* C15: a staged position is still the one read_tmp_position returns after
\* any operation other than store_tmp_position and remove_tmp_position.
C15_NoExpiry ==
    [][(staged # None
          /\ last'.op \notin {"store_tmp_position", "remove_tmp_position"}) =>
          /\ staged' = staged
          /\ read_tmp_position(storage') = Ok(staged)]_vars

\* the position of the staged pair was stored and the staged value is still read
C15_Witness ==
    /\ last.op = "store_position"
    /\ staged # None
    /\ staged[2].vamm = last.arg.vamm
    /\ staged[2].trader = last.arg.trader
    /\ staged[2] # last.arg
    /\ configured
    /\ registered # None
    /\ read_tmp_position(storage) = Ok(staged)

\* what the four readers return
Reads(s) ==
    [config |-> read_config(s), vamm |-> read_vamm(s), tmp |-> read_tmp_position(s),
     position |-> [pair \in AllPairs |-> read_position(s, pair[1], pair[2])]]

\* the keys of the three singletons
SingletonKeys ==
    {to_length_prefixed(KEY_CONFIG), VAMM_LIST, to_length_prefixed(KEY_TMP_POSITION)}

\* C18: store_config changes the result of read_config only, a successful
\* store_vamm the result of read_vamm only, store_position leaves read_config,
\* read_vamm and read_tmp_position as they were; the keys of config,
\* admin_list, tmp-position and of the positions are pairwise different.
C18_StoresIndependent ==
    [][/\ last'.op = "store_config" =>
             /\ [Reads(storage') EXCEPT !.config = Unit]
                   = [Reads(storage) EXCEPT !.config = Unit]
             /\ \A k \in DOMAIN storage :
                   k # to_length_prefixed(KEY_CONFIG) => get(storage', k) = get(storage, k)
       /\ (last'.op = "store_vamm" /\ IsOk(last'.res)) =>
             /\ [Reads(storage') EXCEPT !.vamm = Unit]
                   = [Reads(storage) EXCEPT !.vamm = Unit]
             /\ \A k \in DOMAIN storage :
                   k # VAMM_LIST => get(storage', k) = get(storage, k)
       /\ last'.op = "store_position" =>
             /\ read_config(storage') = read_config(storage)
             /\ read_vamm(storage') = read_vamm(storage)
             /\ read_tmp_position(storage') = read_tmp_position(storage)
       /\ Cardinality(SingletonKeys) = 3
       /\ \A pair \in AllPairs :
             position_bucket_key(position_hash(pair[1], pair[2])) \notin SingletonKeys]_vars

\* a registry replaced another one while a config, a staged position and a
\* position are in the store
C18_Witness ==
    /\ last.op = "store_vamm"
    /\ IsOk(last.res)
    /\ IsOk(last.pre)
    /\ last.pre # read_vamm(storage)
    /\ IsOk(read_config(storage))
    /\ staged # None
    /\ read_tmp_position(storage) = Ok(staged)
    /\ DOMAIN stored # {}

\* C16 as stated: an operation that staged a position observes at every
\* later peek the position it staged last.
C16_PeekSeesOwnStage ==
    (tx.active /\ last.op = "read_tmp_position" /\ tx.own # None) =>
       last.res = Ok(tx.own)

\* C16 amended: an operation that staged a position and has not cleared the
\* slot since observes at a peek the position it staged last; after its own
\* clear the peek finds no position; in neither case a position staged by
\* another operation.
C16_PeekSeesOwnStageUnlessCleared ==
    (tx.active /\ last.op = "read_tmp_position" /\ tx.own # None) =>
       IF tx.cleared THEN last.res = Err(NotFound) ELSE last.res = Ok(tx.own)

\* an operation that began with another operation's position in the slot
\* staged its own and reads that one
C16_Witness ==
    /\ tx.active
    /\ last.op = "read_tmp_position"
    /\ tx.own # None
    /\ ~tx.cleared
    /\ IsOk(read_tmp_position(tx.snapshot[1]))
    /\ read_tmp_position(tx.snapshot[1]) # Ok(tx.own)
    /\ last.res = Ok(tx.own)

====
